---- MODULE Spec2Model ----
(***************************************************************************)
(* ContactMapTask (tape/tasks/ContactMapTask.py): the pair mask of         *)
(* get_mask, the masked loss and the top-L/5 accuracy of loss_function,    *)
(* and the batch-size rescale at the head of get_data.                     *)
(*                                                                         *)
(* Tensors are functions over 0-based indices, as in the source.  The      *)
(* three operations are pure; each has its own specification whose Init    *)
(* draws the arguments and whose single action is the call.                *)
(***************************************************************************)
EXTENDS Integers, Sequences, FiniteSets

VARIABLES pc, min_residue_distance, inputs, outputs, mask, label, pred, indices, result,
          boundaries

vars == <<pc, min_residue_distance, inputs, outputs, mask, label, pred, indices, result,
          boundaries>>

\* A variable an operation does not use.
NoValue == "none"

----------------------------------------------------------------------------
(* Bounds *)

\* get_mask is called on batches of 1..MaxBatch examples padded to 0..MaxMaskLen.
MaxBatch == 2
MaxMaskLen == 4
\* get_data is called with 0..MaxBuckets boundaries and 0..MaxBuckets batch sizes.
MaxBuckets == 3
\* loss_function is called on batches padded to 4, 5 or MaxLen residues.
MaxLen == 10

Abs(x) == IF x < 0 THEN -x ELSE x
Max2(a, b) == IF a >= b THEN a ELSE b

----------------------------------------------------------------------------
(* get_mask *)

\* inputs['valid_mask'][:, :, None] & inputs['valid_mask'][:, None, :]
BothValid(valid_mask, b, i, j) == valid_mask[b][i] /\ valid_mask[b][j]

\* tf.abs(indices[None, :] - indices[:, None]) at row i, column j
DistanceNoAbs(i, j) == j - i
Distance(i, j) == Abs(j - i)

\* tf.greater_equal(distance, self._min_residue_distance)
NearbyContactMaskStrict(i, j, d) == Distance(i, j) > d
NearbyContactMask(i, j, d) == Distance(i, j) >= d

\* The mask get_mask returns: B x L x L booleans, L the padded length of
\* inputs['primary'].
get_mask(inp, d) ==
    [b \in DOMAIN inp.valid_mask |->
        [i \in 0..(inp.sequence_length - 1) |->
            [j \in 0..(inp.sequence_length - 1) |->
                BothValid(inp.valid_mask, b, i, j) /\ NearbyContactMask(i, j, d)]]]

\* Values of min_residue_distance: negative, zero, inside and beyond the length.
MaskDistances == (-1)..(MaxMaskLen + 1)

InitMask ==
    /\ pc = "get_mask"
    /\ min_residue_distance \in MaskDistances
    /\ \E B \in 1..MaxBatch, L \in 0..MaxMaskLen :
          \E vm \in [0..(B - 1) -> [0..(L - 1) -> BOOLEAN]] :
              inputs = [valid_mask |-> vm, sequence_length |-> L]
    /\ outputs = NoValue
    /\ mask = NoValue
    /\ label = NoValue
    /\ pred = NoValue
    /\ indices = NoValue
    /\ result = NoValue
    /\ boundaries = NoValue

CallGetMask ==
    /\ pc = "get_mask"
    /\ mask' = get_mask(inputs, min_residue_distance)
    /\ pc' = "masked"
    /\ UNCHANGED <<min_residue_distance, inputs, outputs, label, pred, indices, result,
                   boundaries>>

NextMask == CallGetMask

SpecMask == InitMask /\ [][NextMask]_vars

\* C1: get_mask returns a B x L x L boolean tensor whose entry (b,i,j) is true
\* exactly when valid_mask[b,i] and valid_mask[b,j] hold and |i-j| is at least
\* min_residue_distance; for L = 4, every position valid and a distance of 2 the
\* true entries are (0,2), (0,3), (1,3) and their transposes.
C1_MaskIff ==
    pc = "masked" =>
        LET vm == inputs.valid_mask
            L == inputs.sequence_length
            d == min_residue_distance
        IN  /\ DOMAIN mask = DOMAIN vm
            /\ \A b \in DOMAIN mask :
                  /\ DOMAIN mask[b] = 0..(L - 1)
                  /\ \A i \in 0..(L - 1) :
                        /\ DOMAIN mask[b][i] = 0..(L - 1)
                        /\ \A j \in 0..(L - 1) :
                              /\ mask[b][i][j] \in BOOLEAN
                              /\ mask[b][i][j] <=>
                                    (vm[b][i] /\ vm[b][j] /\ (i - j >= d \/ j - i >= d))
            /\ (L = 4 /\ d = 2 /\ \A b \in DOMAIN vm : \A i \in 0..3 : vm[b][i]) =>
                  \A b \in DOMAIN mask :
                      {p \in (0..3) \X (0..3) : mask[b][p[1]][p[2]]}
                          = {<<0, 2>>, <<0, 3>>, <<1, 3>>, <<2, 0>>, <<3, 0>>, <<3, 1>>}

C1_Witness ==
    /\ pc = "masked"
    /\ inputs.sequence_length = 4
    /\ min_residue_distance = 2
    /\ \A b \in DOMAIN inputs.valid_mask : \A i \in 0..3 : inputs.valid_mask[b][i]
    /\ mask[0][0][2] /\ mask[0][3][1] /\ ~mask[0][0][1] /\ ~mask[0][2][2]

----------------------------------------------------------------------------
(* get_data: the rescale of the batch sizes, lines 101-106 *)

\* The integer part of the square root.
ISqrt(n) == CHOOSE r \in 0..n : r * r <= n /\ (r + 1) * (r + 1) > n

\* np.asarray(np.sqrt(batch_sizes) / 4, np.int32) at one entry: the cast
\* truncates sqrt(n) / 4, which for n >= 0 is the integer part of ISqrt(n) / 4.
ScaledSize(n) == ISqrt(n) \div 4

\* batch_sizes_array[batch_sizes_array <= 0] = 1
Clamp(arr) == [i \in DOMAIN arr |-> IF arr[i] <= 0 THEN 1 ELSE arr[i]]

\* bounds_array > 1000
OversizedInclusive(bound) == bound >= 1000
Oversized(bound) == bound > 1000

\* batch_sizes_array[:-1]: the length of the view the boolean index is applied to.
HeadLen(arr) == IF Len(arr) = 0 THEN 0 ELSE Len(arr) - 1

\* Line 105 raises IndexError when the boolean index bounds_array > 1000 and
\* the indexed view batch_sizes_array[:-1] differ in length.
Line105RaisesNoSlice(bounds_array, arr) == Len(bounds_array) # Len(arr)
Line105Raises(bounds_array, arr) == Len(bounds_array) # HeadLen(arr)

\* batch_sizes_array[:-1][bounds_array > 1000] = 0
ForceOversized(bounds_array, arr) ==
    [i \in DOMAIN arr |->
        IF i <= HeadLen(arr) /\ i <= Len(bounds_array) /\ Oversized(bounds_array[i])
        THEN 0 ELSE arr[i]]

\* batch_sizes_array[-1] = 0 raises IndexError on an empty array.
Line106Raises(arr) == Len(arr) = 0
ForceLast(arr) == [i \in DOMAIN arr |-> IF i = Len(arr) THEN 0 ELSE arr[i]]

\* Lines 103-106 on arrays that raise nowhere.
RescaleClampLast(bounds_array, batch_sizes) ==
    Clamp(ForceLast(ForceOversized(bounds_array,
        [i \in DOMAIN batch_sizes |-> ScaledSize(batch_sizes[i])])))
Rescale(bounds_array, batch_sizes) ==
    ForceLast(ForceOversized(bounds_array,
        Clamp([i \in DOMAIN batch_sizes |-> ScaledSize(batch_sizes[i])])))

\* Whether lines 101-106 raise.
RescaleRaises(bounds_array, batch_sizes) ==
    \/ Line105Raises(bounds_array, batch_sizes)
    \/ Line106Raises(batch_sizes)

\* Length boundaries around the threshold of 1000, and the 1e9 of a catch-all bucket.
BoundValues == {500, 1000, 1500, 1000000000}
\* Nominal batch sizes: 0 and 15 scale to 0, the others to 2, 2 and 5.
SizeValues == {0, 15, 64, 100, 400}

SeqsUpTo(S, n) == UNION {[1..m -> S] : m \in 0..n}

InitSched ==
    /\ pc = "get_data"
    /\ \E bounds \in SeqsUpTo(BoundValues, MaxBuckets),
          batch_sizes \in SeqsUpTo(SizeValues, MaxBuckets) :
              boundaries = <<bounds, batch_sizes>>
    /\ result = NoValue
    /\ min_residue_distance = NoValue
    /\ inputs = NoValue
    /\ outputs = NoValue
    /\ mask = NoValue
    /\ label = NoValue
    /\ pred = NoValue
    /\ indices = NoValue

\* get_data up to the call of super().get_data: result is the pair handed to it.
CallGetData ==
    /\ pc = "get_data"
    /\ LET bounds == boundaries[1]
           batch_sizes == boundaries[2]
       IN  IF RescaleRaises(bounds, batch_sizes)
           THEN /\ pc' = "raised"
                /\ result' = NoValue
           ELSE /\ pc' = "returned"
                /\ result' = <<bounds, Rescale(bounds, batch_sizes)>>
    /\ UNCHANGED <<min_residue_distance, inputs, outputs, mask, label, pred, indices,
                   boundaries>>

NextSched == CallGetData

SpecSched == InitSched /\ [][NextSched]_vars

\* floor(sqrt(n) / 4), stated without the code's steps.
FloorSqrtOver4(n) == CHOOSE m \in 0..n : 16 * m * m <= n /\ 16 * (m + 1) * (m + 1) > n

\* What the rescale is claimed to return for boundaries bounds and sizes sizes.
ClaimedEntry(bounds, sizes, i) ==
    IF i = Len(sizes) \/ bounds[i] > 1000
    THEN 0
    ELSE Max2(1, FloorSqrtOver4(sizes[i]))

C4_ZeroExactlyWhenDisabled ==
    pc = "returned" =>
        LET bounds == boundaries[1]
            out == result[2]
            N == Len(out)
        IN  \A i \in 1..N :
                /\ out[i] >= 0
                /\ out[i] = 0 <=> (i = N \/ (i < N /\ bounds[i] > 1000))
                /\ out[i] # 0 => out[i] >= 1

\* A clamped bucket (nominal size 0, kept at 1) beside a disabled one.
C4_Witness ==
    /\ pc = "returned"
    /\ \E i \in 1..(Len(result[2]) - 1) :
          boundaries[2][i] = 0 /\ boundaries[1][i] <= 1000 /\ result[2][i] = 1
    /\ \E i \in 1..(Len(result[2]) - 1) :
          boundaries[1][i] > 1000 /\ result[2][i] = 0

----------------------------------------------------------------------------
(* loss_function *)

\* The constant of the additive penalty, 1000 * (1 - mask).
MaskPenalty == 1000
\* 1 / 1e-8: the accuracy's numerator and denominator are kept in units of 1e-8.
InverseEpsilon == 100000000
\* The default of min_residue_distance.
DefaultMinResidueDistance == 6

RECURSIVE SumRange(_, _, _)
\* tf.reduce_sum of the entries lo..hi of f, by halves.
SumRange(f, lo, hi) ==
    IF lo > hi THEN 0
    ELSE IF lo = hi THEN f[lo]
    ELSE LET mid == (lo + hi) \div 2
         IN  SumRange(f, lo, mid) + SumRange(f, mid + 1, hi)

\* tf.reduce_sum of the entries 0..n-1 of f.
SumTo(f, n) == SumRange(f, 0, n - 1)

\* tf.reduce_sum of the first n entries of the sequence s.
SumSeq(s, n) == SumRange(s, 1, n)

\* tf.reshape(t, (batch_size, seqlen * seqlen)) at example b: row-major.
Reshape(t, b, seqlen) ==
    [p \in 0..(seqlen * seqlen - 1) |-> t[b][p \div seqlen][p % seqlen]]

\* tf.cast(mask, pred.dtype)
Cast(m) == IF m THEN 1 ELSE 0

\* log(1 + exp(-a)) for a >= 0, in thousandths, rounded.
Softplus(a) ==
    CASE a = 0 -> 693
      [] a = 1 -> 313
      [] a = 2 -> 127
      [] a = 3 -> 49
      [] a = 4 -> 18
      [] a = 5 -> 7
      [] a = 6 -> 2
      [] a = 7 -> 1
      [] OTHER -> 0

\* The sigmoid cross-entropy of label z and logit x:
\* max(x, 0) - x * z + log(1 + exp(-|x|)), in thousandths.
ElementLoss(z, x) == 1000 * (Max2(x, 0) - x * z) + Softplus(Abs(x))

\* One entry's share of the weighted sum: the loss times its weight.
WeightedLossNoWeight(z, x, w) == ElementLoss(z, x)
WeightedLoss(z, x, w) == ElementLoss(z, x) * w

\* tf.losses.sigmoid_cross_entropy(label, pred, mask): the weighted sum over the
\* number of non-zero weights, 0 when there is none.  The quotient is kept as
\* the pair of its terms.
sigmoid_cross_entropy(labels, logits, weights, batch, npairs) ==
    LET total == SumTo([b \in batch |->
                     SumTo([p \in 0..(npairs - 1) |->
                         WeightedLoss(labels[b][p], logits[b][p], weights[b][p])], npairs)],
                     Cardinality(batch))
        present == SumTo([b \in batch |->
                       Cardinality({p \in 0..(npairs - 1) : weights[b][p] # 0})],
                       Cardinality(batch))
    IN  IF present = 0 THEN [num |-> 0, den |-> 1] ELSE [num |-> total, den |-> present]

RECURSIVE ReduceMaxTo(_, _)
ReduceMaxTo(f, n) ==
    IF n = 1 THEN f[0] ELSE Max2(f[n - 1], ReduceMaxTo(f, n - 1))

RECURSIVE ReduceMinTo(_, _)
ReduceMinTo(f, n) ==
    IF n = 1 THEN f[0]
    ELSE LET r == ReduceMinTo(f, n - 1) IN IF f[n - 1] <= r THEN f[n - 1] ELSE r

\* tf.reduce_max(inputs['protein_length'])
ReduceMin(protein_length) == ReduceMinTo(protein_length, Cardinality(DOMAIN protein_length))
ReduceMax(protein_length) == ReduceMaxTo(protein_length, Cardinality(DOMAIN protein_length))

\* pred - (1000 * (1 - mask)) at one entry
Score(x, w) == x - MaskPenalty * (1 - w)

\* The index of the largest of values[0..n-1] outside taken, the lowest such
\* index on a tie.
ArgMax(values, n, taken) ==
    CHOOSE p \in 0..(n - 1) :
        /\ p \notin taken
        /\ \A q \in 0..(n - 1) :
              \/ q \in taken
              \/ values[q] < values[p]
              \/ (values[q] = values[p] /\ q >= p)

RECURSIVE TopKFrom(_, _, _, _)
TopKFrom(values, n, k, taken) ==
    IF k = 0 THEN <<>>
    ELSE LET best == ArgMax(values, n, taken)
         IN  <<best>> \o TopKFrom(values, n, k - 1, taken \cup {best})

\* tf.nn.top_k(values, k).indices for one row of n entries: the indices of the k
\* largest entries, largest first, the lower index first among equals.
top_k(values, n, k) == TopKFrom(values, n, k, {})

\* tf.gather_nd(t, tf.stack([ii, indices], -1)) at example b
gather_nd(t, idx, b) == [r \in DOMAIN idx[b] |-> t[b][idx[b][r]]]

\* The numerator of line 89, tf.reduce_sum(l5_labels * l5_mask).
AccuracyNumeratorNoMask(l5_labels, l5_mask, batch, k) ==
    SumTo([b \in batch |-> SumSeq(l5_labels[b], k)], Cardinality(batch))
AccuracyNumerator(l5_labels, l5_mask, batch, k) ==
    SumTo([b \in batch |->
        SumSeq([r \in 1..k |-> l5_labels[b][r] * l5_mask[b][r]], k)], Cardinality(batch))

\* The denominator of line 89, tf.reduce_sum(l5_mask) + 1e-8, in units of 1e-8.
AccuracyDenominatorNoEpsilon(l5_mask, batch, k) ==
    InverseEpsilon * SumTo([b \in batch |-> SumSeq(l5_mask[b], k)], Cardinality(batch))
AccuracyDenominator(l5_mask, batch, k) ==
    InverseEpsilon * SumTo([b \in batch |-> SumSeq(l5_mask[b], k)], Cardinality(batch)) + 1

\* Lines 73-77: label, pred and the cast mask, flattened to B x (L * L).
FlatLabel(inp, batch, seqlen) == [b \in batch |-> Reshape(inp.contact_map, b, seqlen)]
\* (tf.squeeze drops the logits' trailing axis of size 1, which is not kept here.)
FlatPred(out, batch, seqlen) == [b \in batch |-> Reshape(out.contact_prob, b, seqlen)]
FlatMask(m, batch, seqlen) ==
    [b \in batch |-> LET r == Reshape(m, b, seqlen)
                     IN  [p \in DOMAIN r |-> Cast(r[p])]]

\* Line 79 on the flattened tensors.
Loss(labels, logits, weights, batch, seqlen) ==
    sigmoid_cross_entropy(labels, logits, weights, batch, seqlen * seqlen)

\* Line 82: k and, per example, the indices of the top k scores.
TopLOver5(logits, weights, protein_length, batch, seqlen) ==
    LET k == ReduceMax(protein_length) \div 5
    IN  [b \in batch |->
            top_k([p \in 0..(seqlen * seqlen - 1) |-> Score(logits[b][p], weights[b][p])],
                  seqlen * seqlen, k)]

\* Lines 84-89: the accuracy as the pair of its numerator and denominator, both
\* in units of 1e-8.
Accuracy(labels, weights, idx, batch) ==
    LET k == Len(idx[0])
        l5_labels == [b \in batch |-> gather_nd(labels, idx, b)]
        l5_mask == [b \in batch |-> gather_nd(weights, idx, b)]
    IN  [num |-> InverseEpsilon * AccuracyNumerator(l5_labels, l5_mask, batch, k),
         den |-> AccuracyDenominator(l5_mask, batch, k)]

\* A tensor over residue pairs with one value near the diagonal (|i-j| < 2) and
\* one away from it.
Banded(L, near, far) ==
    [i \in 0..(L - 1) |-> [j \in 0..(L - 1) |-> IF Abs(i - j) < 2 THEN near ELSE far]]

\* The validity flags of a protein of plen residues padded to L, residue gap
\* (if any) unresolved.
ValidFlags(L, plen, gap) == [i \in 0..(L - 1) |-> i < plen /\ i # gap]

LossLens == {4, 5, MaxLen}
LossDistances == {0, 2, DefaultMinResidueDistance}
\* Logits: 2000 is more than MaskPenalty above the others.
PredValues == {-1, 0, 2000}
LabelValues == {0, 1}

\* One example of a batch padded to L: its true length, validity flags, contact
\* map and logits.
Examples(L, lens, gaps) ==
    {[protein_length |-> plen,
      valid_mask |-> ValidFlags(L, plen, gap),
      contact_map |-> Banded(L, ln, lf),
      contact_prob |-> Banded(L, pn, pf)] :
        plen \in lens, gap \in gaps, ln \in LabelValues, lf \in LabelValues,
        pn \in PredValues, pf \in PredValues}

\* The batch of two proteins of lengths 10 and 20, every residue resolved, both
\* with the same banded contact map and logits.
ScenarioLengths == [b \in 0..1 |-> IF b = 0 THEN 10 ELSE 20]
ScenarioBatches ==
    {[b \in 0..1 |->
        [protein_length |-> ScenarioLengths[b],
         valid_mask |-> ValidFlags(ScenarioLengths[1], ScenarioLengths[b], -1),
         contact_map |-> Banded(ScenarioLengths[1], ln, lf),
         contact_prob |-> Banded(ScenarioLengths[1], pn, pf)]] :
        ln \in LabelValues, lf \in LabelValues, pn \in PredValues, pf \in PredValues}

\* The batches padded to L: one or two proteins, the first the longest, of length
\* L, the second of length 2 or L and with residue 1 unresolved or not.
Batches(L) ==
    [{0} -> Examples(L, {L}, {-1})]
        \cup {[b \in 0..1 |-> IF b = 0 THEN e[1] ELSE e[2]] :
                 e \in Examples(L, {L}, {-1}) \X Examples(L, {2, L}, {-1, 1})}

InitLoss ==
    /\ pc = "loss_function"
    /\ min_residue_distance \in LossDistances
    /\ \E L \in LossLens \cup {ScenarioLengths[1]} :
          \E ex \in IF L = ScenarioLengths[1] THEN ScenarioBatches ELSE Batches(L) :
              /\ inputs = [valid_mask |-> [b \in DOMAIN ex |-> ex[b].valid_mask],
                           sequence_length |-> L,
                           protein_length |-> [b \in DOMAIN ex |-> ex[b].protein_length],
                           contact_map |-> [b \in DOMAIN ex |-> ex[b].contact_map]]
              /\ outputs = [contact_prob |-> [b \in DOMAIN ex |-> ex[b].contact_prob]]
    /\ mask = NoValue
    /\ label = NoValue
    /\ pred = NoValue
    /\ indices = NoValue
    /\ result = NoValue
    /\ boundaries = NoValue

\* loss_function.  label, pred, mask and indices are its locals of those names
\* as they stand when it returns (lines 73-77 and 82); result is what it returns.
CallLossFunction ==
    /\ pc = "loss_function"
    /\ LET batch == DOMAIN inputs.contact_map
           seqlen == inputs.sequence_length
       IN  /\ mask' = FlatMask(get_mask(inputs, min_residue_distance), batch, seqlen)
           /\ label' = FlatLabel(inputs, batch, seqlen)
           /\ pred' = FlatPred(outputs, batch, seqlen)
           /\ indices' = TopLOver5(pred', mask', inputs.protein_length, batch, seqlen)
           /\ result' = [loss |-> Loss(label', pred', mask', batch, seqlen),
                         ACC |-> Accuracy(label', mask', indices', batch)]
    /\ pc' = "done"
    /\ UNCHANGED <<min_residue_distance, inputs, outputs, boundaries>>

NextLoss == CallLossFunction

SpecLoss == InitLoss /\ [][NextLoss]_vars

\* The number of pairs of example b that the mask keeps.
UnmaskedCount(b) == Cardinality({p \in DOMAIN mask[b] : mask[b][p] = 1})

\* The largest protein_length of the batch.
MaxProteinLength ==
    CHOOSE m \in {inputs.protein_length[b] : b \in DOMAIN inputs.protein_length} :
        \A b \in DOMAIN inputs.protein_length : inputs.protein_length[b] <= m

\* The selected pairs, as (example, flattened index).
Selected == {<<b, indices[b][r]>> : b \in DOMAIN indices, r \in 1..(MaxProteinLength \div 5)}

\* C3: for every example with at least k = max(protein_length) // 5 unmasked
\* pairs, and for all logits, none of the k pairs selected for it is masked out.
C3_MaskedNeverSelected ==
    pc = "done" =>
        \A b \in DOMAIN indices :
            UnmaskedCount(b) >= MaxProteinLength \div 5 =>
                \A r \in 1..Len(indices[b]) : mask[b][indices[b][r]] = 1

\* A tensor equal to t at the pairs the mask keeps and changed by f elsewhere.
ChangedWhereMasked(t, f(_)) ==
    [b \in DOMAIN t |-> [p \in DOMAIN t[b] |-> IF mask[b][p] = 0 THEN f(t[b][p]) ELSE t[b][p]]]

FlipLabel(z) == 1 - z
ShiftLogit(x) == IF x > 0 THEN -3 ELSE x + 7

\* C6: the loss does not depend on the label or the logit at a pair whose mask
\* is false: the batch with the same valid_mask whose labels are flipped and
\* whose logits are moved at every masked-out pair has the same loss.
C6_LossIgnoresMasked ==
    pc = "done" =>
        Loss(ChangedWhereMasked(label, FlipLabel), ChangedWhereMasked(pred, ShiftLogit),
             mask, DOMAIN label, inputs.sequence_length) = result.loss

C6_Witness ==
    /\ pc = "done"
    /\ \E b \in DOMAIN mask : \E p \in DOMAIN mask[b] : mask[b][p] = 0
    /\ \E b \in DOMAIN mask : \E p \in DOMAIN mask[b] : mask[b][p] = 1
    /\ result.loss.num > 0
    /\ result.loss.den < Cardinality(DOMAIN mask) * Cardinality(DOMAIN mask[0])

\* C7: with binary labels and at least one unmasked selected pair ACC lies in
\* [0,1]: the sum of label x weight over the selected pairs is at least 0 and at
\* most the sum of the weights over them.
C7_AccuracyInUnitInterval ==
    (/\ pc = "done"
     /\ \A b \in DOMAIN label : \A p \in DOMAIN label[b] : label[b][p] \in {0, 1}
     /\ \E s \in Selected : mask[s[1]][s[2]] = 1) =>
        /\ result.ACC.num >= 0
        /\ result.ACC.num <= result.ACC.den
        /\ result.ACC.den > InverseEpsilon

\* Masked and unmasked pairs selected, contacts and non-contacts among the
\* unmasked ones.
C7_Witness ==
    /\ pc = "done"
    /\ \E s \in Selected : mask[s[1]][s[2]] = 0 /\ label[s[1]][s[2]] = 1
    /\ \E s \in Selected : mask[s[1]][s[2]] = 1 /\ label[s[1]][s[2]] = 1
    /\ \E s \in Selected : mask[s[1]][s[2]] = 1 /\ label[s[1]][s[2]] = 0
    /\ result.ACC.num > 0
    /\ result.ACC.num < result.ACC.den - 1

\* C9: loss_function selects for every example exactly k = max(protein_length)
\* // 5 distinct indices of the flattened L * L pair space, the same k whatever
\* the example's own length; for protein_length = [10,20] it selects exactly 4
\* pairs per example.
C9_SelectsKPerExample ==
    pc = "done" =>
        \A b \in DOMAIN inputs.protein_length :
            /\ Len(indices[b]) = MaxProteinLength \div 5
            /\ inputs.protein_length = ScenarioLengths => Len(indices[b]) = 4
            /\ \A r \in 1..Len(indices[b]) :
                  indices[b][r] \in 0..(inputs.sequence_length * inputs.sequence_length - 1)
            /\ \A r, t \in 1..Len(indices[b]) : r # t => indices[b][r] # indices[b][t]

\* Four distinct pairs selected for the protein of length 10 batched with one of
\* length 20.
C9_Witness ==
    /\ pc = "done"
    /\ inputs.protein_length = ScenarioLengths
    /\ inputs.protein_length[0] \div 5 = 2
    /\ Len(indices[0]) = 4
    /\ Cardinality({indices[0][r] : r \in 1..4}) = 4

\* C10: when no selected pair is valid (k = 0, or every selected pair is masked
\* out) loss_function returns, and ACC is 0.
C10_DegenerateAccuracyZero ==
    (pc # "loss_function" /\ (pc = "done" => \A s \in Selected : mask[s[1]][s[2]] = 0)) =>
        /\ pc = "done"
        /\ result.ACC.den > 0
        /\ result.ACC.num = 0

\* Every selected pair masked out, contacts among them.
C10_Witness ==
    /\ pc = "done"
    /\ Selected # {}
    /\ \A s \in Selected : mask[s[1]][s[2]] = 0
    /\ \E s \in Selected : label[s[1]][s[2]] = 1

====
